---------------------------- MODULE Spec2Model ----------------------------
(***************************************************************************)
(* Model of molsym/pointgroup.py: point groups, their tabulated irreducible *)
(* representations, and the product / sum / power algebra on them.          *)
(***************************************************************************)
EXTENDS Integers, Sequences, FiniteSets, TLC

(***************************************************************************)
(* Bounds of the exploration.                                               *)
(***************************************************************************)
\* longest chain of operations applied one after the other in a session
MaxOps == 2
\* longest list of irreps a session keeps working on
MaxLen == 5
\* largest integer exponent tried with **
MaxExp == 3

(***************************************************************************)
(* Strings are sequences of one-character strings, so that lower(),         *)
(* isalpha() and the regular expression \d+ can be computed.                *)
(***************************************************************************)
UpperChars == <<"A","B","C","D","E","F","G","H","I","J","K","L","M",
                "N","O","P","Q","R","S","T","U","V","W","X","Y","Z">>
LowerChars == <<"a","b","c","d","e","f","g","h","i","j","k","l","m",
                "n","o","p","q","r","s","t","u","v","w","x","y","z">>
DigitChars == <<"0","1","2","3","4","5","6","7","8","9">>

Range(s) == { s[i] : i \in DOMAIN s }

IndexOf(c, s) == CHOOSE i \in DOMAIN s : s[i] = c

\* str.lower() on one character
LowerChar(c) == IF c \in Range(UpperChars) THEN LowerChars[IndexOf(c, UpperChars)] ELSE c

\* str.lower()
Lower(s) == [ i \in DOMAIN s |-> LowerChar(s[i]) ]

IsLetter(c) == c \in Range(UpperChars) \cup Range(LowerChars)

IsDigit(c) == c \in Range(DigitChars)

\* str.isalpha(): non-empty and letters only
IsAlpha(s) == Len(s) > 0 /\ \A i \in DOMAIN s : IsLetter(s[i])

HasDigit(s) == \E i \in DOMAIN s : IsDigit(s[i])

\* re.search(r'\d+', s).group(): the first maximal run of digits
FirstDigitRun(s) ==
    LET first == CHOOSE i \in DOMAIN s : IsDigit(s[i]) /\ \A j \in 1..(i-1) : ~IsDigit(s[j])
        last  == CHOOSE k \in first..Len(s) :
                    /\ \A j \in first..k : IsDigit(s[j])
                    /\ (k = Len(s) \/ ~IsDigit(s[k+1]))
    IN SubSeq(s, first, last)

RECURSIVE DecimalValue(_)
\* int() of a run of digits
DecimalValue(run) ==
    IF run = <<>> THEN 0
    ELSE 10 * DecimalValue(SubSeq(run, 1, Len(run) - 1))
         + (IndexOf(run[Len(run)], DigitChars) - 1)

RECURSIVE SubDigitRuns(_)
\* re.sub(r'\d+', 'n', s): every maximal run of digits becomes one 'n'
SubDigitRuns(s) ==
    IF s = <<>> THEN <<>>
    ELSE IF IsDigit(s[1])
         THEN IF Len(s) > 1 /\ IsDigit(s[2])
              THEN SubDigitRuns(Tail(s))
              ELSE <<"n">> \o SubDigitRuns(Tail(s))
         ELSE <<s[1]>> \o SubDigitRuns(Tail(s))

(***************************************************************************)
(* PointGroup: identity is (pg, n); the table is set by _set_irreps.        *)
(***************************************************************************)
\* the fields PointGroup.__init__ assigns before _set_irreps runs
PointGroupObj(pg, n) == [ pg |-> pg, n |-> n ]

\* PointGroup.__eq__
PointGroupEq(g, h) == g.pg = h.pg /\ g.n = h.n

\* IrreducibleRepresentation.__init__
Irrep(g, chars, degenerate) == [ pg |-> g, irrep |-> chars, degenerate |-> degenerate ]

Entry(symbol, irrep) == [ symbol |-> symbol, irrep |-> irrep ]

\* the values of a dictionary, in insertion order
Values(elements) == [ i \in DOMAIN elements |-> elements[i].irrep ]

\* what an object whose _set_irreps matched no branch holds: no elements,
\* no symop_multiplicity, no order attribute
NoTable == [ set |-> FALSE, elements |-> <<>>, values |-> <<>>, symop_multiplicity |-> <<>>, order |-> 0 ]

\* self while _set_irreps fills the C1 table
SelfC1 == PointGroupObj(<<"c","n">>, 1)

ElementsC1 ==
    << Entry(<<"a">>, Irrep(SelfC1, <<1>>, FALSE)) >>

TableC1 ==
    [ set |-> TRUE,
      elements |-> ElementsC1,
      values |-> Values(ElementsC1),
      symop_multiplicity |-> <<1>>,
      order |-> 1 ]

\* self while _set_irreps fills the C2v table
SelfC2v == PointGroupObj(<<"c","n","v">>, 2)

ElementsC2v ==
    <<
      Entry(<<"a","1">>, Irrep(SelfC2v, <<1, 1, 1, 1>>, FALSE)),
      Entry(<<"a","2">>, Irrep(SelfC2v, <<1, 1,-1,-1>>, FALSE)),
      Entry(<<"b","1">>, Irrep(SelfC2v, <<1,-1, 1,-1>>, FALSE)),
      Entry(<<"b","2">>, Irrep(SelfC2v, <<1,-1,-1, 1>>, FALSE)) >>

TableC2v ==
    [ set |-> TRUE,
      elements |-> ElementsC2v,
      values |-> Values(ElementsC2v),
      symop_multiplicity |-> <<1, 1, 1, 1>>,
      order |-> 4 ]

\* self while _set_irreps fills the D3 table
SelfD3 == PointGroupObj(<<"d","n">>, 3)

ElementsD3 ==
    <<
      Entry(<<"a","1">>, Irrep(SelfD3, <<1, 1, 1>>, FALSE)),
      Entry(<<"a","2">>, Irrep(SelfD3, <<1, 1,-1>>, FALSE)),
      Entry(<<"e">>,     Irrep(SelfD3, <<2,-1, 0>>, TRUE)) >>

TableD3 ==
    [ set |-> TRUE,
      elements |-> ElementsD3,
      values |-> Values(ElementsD3),
      symop_multiplicity |-> <<1, 2, 3>>,
      order |-> 6 ]

\* self while _set_irreps fills the D2h table
SelfD2h == PointGroupObj(<<"d","n","h">>, 2)

ElementsD2h ==
    <<
      Entry(<<"a","g">>,     Irrep(SelfD2h, <<1, 1, 1, 1, 1, 1, 1, 1>>, FALSE)),
      Entry(<<"b","1","g">>, Irrep(SelfD2h, <<1, 1,-1,-1, 1, 1,-1,-1>>, FALSE)),
      Entry(<<"b","2","g">>, Irrep(SelfD2h, <<1,-1,-1, 1, 1,-1, 1,-1>>, FALSE)),
      Entry(<<"b","3","g">>, Irrep(SelfD2h, <<1,-1, 1,-1, 1,-1,-1, 1>>, FALSE)),
      Entry(<<"a","u">>,     Irrep(SelfD2h, <<1, 1, 1, 1,-1,-1,-1,-1>>, FALSE)),
      Entry(<<"b","1","u">>, Irrep(SelfD2h, <<1, 1,-1,-1,-1,-1, 1, 1>>, FALSE)),
      Entry(<<"b","2","u">>, Irrep(SelfD2h, <<1,-1,-1, 1,-1, 1,-1, 1>>, FALSE)),
      Entry(<<"b","3","u">>, Irrep(SelfD2h, <<1,-1, 1,-1,-1, 1, 1,-1>>, FALSE)) >>

TableD2h ==
    [ set |-> TRUE,
      elements |-> ElementsD2h,
      values |-> Values(ElementsD2h),
      symop_multiplicity |-> <<1, 1, 1, 1, 1, 1, 1, 1>>,
      order |-> 8 ]

\* self while _set_irreps fills the D6h table
SelfD6h == PointGroupObj(<<"d","n","h">>, 6)

ElementsD6h ==
    <<
      Entry(<<"a","1","g">>, Irrep(SelfD6h, <<1, 1, 1, 1, 1, 1, 1, 1, 1, 1, 1, 1>>, FALSE)),
      Entry(<<"a","2","g">>, Irrep(SelfD6h, <<1, 1, 1, 1,-1,-1, 1, 1, 1, 1,-1,-1>>, FALSE)),
      Entry(<<"b","1","g">>, Irrep(SelfD6h, <<1,-1, 1,-1, 1,-1, 1, 1,-1,-1,-1, 1>>, FALSE)),
      Entry(<<"b","2","g">>, Irrep(SelfD6h, <<1,-1, 1,-1,-1, 1, 1, 1,-1,-1, 1,-1>>, FALSE)),
      Entry(<<"e","1","g">>, Irrep(SelfD6h, <<2, 1,-1,-2, 0, 0, 2,-1, 1,-2, 0, 0>>, TRUE)),
      Entry(<<"e","2","g">>, Irrep(SelfD6h, <<2,-1,-1, 2, 0, 0, 2,-1,-1, 2, 0, 0>>, TRUE)),
      Entry(<<"a","1","u">>, Irrep(SelfD6h, <<1, 1, 1, 1, 1, 1,-1,-1,-1,-1,-1,-1>>, FALSE)),
      Entry(<<"a","2","u">>, Irrep(SelfD6h, <<1, 1, 1, 1,-1,-1,-1,-1,-1,-1, 1, 1>>, FALSE)),
      Entry(<<"b","1","u">>, Irrep(SelfD6h, <<1,-1, 1,-1, 1,-1,-1,-1, 1, 1, 1,-1>>, FALSE)),
      Entry(<<"b","2","u">>, Irrep(SelfD6h, <<1,-1, 1,-1,-1, 1,-1,-1, 1, 1,-1, 1>>, FALSE)),
      Entry(<<"e","1","u">>, Irrep(SelfD6h, <<2, 1,-1,-2, 0, 0,-2, 1,-1, 2, 0, 0>>, TRUE)),
      Entry(<<"e","2","u">>, Irrep(SelfD6h, <<2,-1,-1, 2, 0, 0,-2, 1, 1,-2, 0, 0>>, TRUE)) >>

TableD6h ==
    [ set |-> TRUE,
      elements |-> ElementsD6h,
      values |-> Values(ElementsD6h),
      symop_multiplicity |-> <<1, 2, 2, 1, 3, 3, 1, 2, 2, 1, 3, 3>>,
      order |-> 24 ]

\* PointGroup._set_irreps: the attributes it sets on the object g, or none
\* of them when no branch matches (the method then just returns)
SetIrreps(g) ==
    IF g.pg = <<"c","n">> /\ g.n = 1 THEN TableC1
    ELSE IF g.pg = <<"c","n","v">> /\ g.n = 2 THEN TableC2v
    ELSE IF g.pg = <<"d","n">> /\ g.n = 3 THEN TableD3
    ELSE IF g.pg = <<"d","n","h">> /\ g.n = 2 THEN TableD2h
    ELSE IF g.pg = <<"d","n","h">> /\ g.n = 6 THEN TableD6h
    ELSE NoTable

\* self.pg.elements.values(), in insertion order
ElementValues(g) == SetIrreps(g).values

\* PointGroup.__init__: the name parsing, then _set_irreps.  A name that is
\* neither alphabetic nor holds a digit makes re.search return None, and
\* None.group() raises AttributeError.
PointGroupInit(name, n) ==
    LET pg == Lower(name) IN
    IF IsAlpha(pg)
    THEN [ exc |-> "", obj |-> PointGroupObj(pg, n) ]
    ELSE IF ~HasDigit(pg)
         THEN [ exc |-> "AttributeError", obj |-> PointGroupObj(pg, n) ]
         ELSE [ exc |-> "",
                obj |-> PointGroupObj(SubDigitRuns(pg), DecimalValue(FirstDigitRun(pg))) ]

(***************************************************************************)
(* int(1/order * sum): binary64 arithmetic.  A positive double is a 53 bit  *)
(* mantissa (most significant bit first, leading bit 1) and an exponent:    *)
(* value = mantissa * 2^exp.  Long products are worked out on limbs of      *)
(* LimbBits bits, so that every intermediate number fits a machine word.    *)
(***************************************************************************)
MantissaBits == 53

LimbBits == 8

Reverse(s) == [ i \in DOMAIN s |-> s[Len(s) + 1 - i] ]

RECURSIVE Pow2(_)
Pow2(e) == IF e = 0 THEN 1 ELSE 2 * Pow2(e - 1)

RECURSIVE SumSeq(_)
SumSeq(s) == IF s = <<>> THEN 0 ELSE s[1] + SumSeq(Tail(s))

\* the number written by a short bit string, most significant bit first
BitsToInt(bits) == SumSeq([ i \in DOMAIN bits |-> bits[i] * Pow2(Len(bits) - i) ])

RECURSIVE CeilLog2(_, _, _)
\* the least e with 2^e >= n, counting up from e with p = 2^e
CeilLog2(n, e, p) == IF p >= n THEN e ELSE CeilLog2(n, e + 1, 2 * p)

RECURSIVE Pow2Mod(_, _)
\* 2^k mod n by repeated squaring
Pow2Mod(k, n) ==
    IF k = 0 THEN 1 % n
    ELSE LET h == Pow2Mod(k \div 2, n)
         IN IF k % 2 = 0 THEN (h * h) % n ELSE (2 * h * h) % n

\* the remainder the long division of 2^e by n carries into quotient bit i
\* (bit 0 is the units bit): r_0 = 2^e, r_i = 2 * (r_(i-1) mod n)
DivRemainder(e, n, i) == IF i = 0 THEN Pow2(e) ELSE 2 * Pow2Mod(e + i - 1, n)

\* bits + 1, most significant bit first; one bit longer when all bits are 1
Increment(bits) ==
    IF \A i \in DOMAIN bits : bits[i] = 1
    THEN <<1>> \o [ i \in DOMAIN bits |-> 0 ]
    ELSE LET p == CHOOSE i \in DOMAIN bits :
                     bits[i] = 0 /\ \A j \in (i+1)..Len(bits) : bits[j] = 1
         IN [ i \in DOMAIN bits |-> IF i < p THEN bits[i] ELSE IF i = p THEN 1 ELSE 0 ]

\* a truncating rounding, in place of round-to-nearest-even
RoundTowardZero(kept, roundUp, exp) == [ mant |-> kept, exp |-> exp ]

\* IEEE 754 round-to-nearest-even of kept (MantissaBits bits) with the
\* decision roundUp already taken from the guard, sticky and last bits
RoundNearest(kept, roundUp, exp) ==
    IF ~roundUp THEN [ mant |-> kept, exp |-> exp ]
    ELSE LET up == Increment(kept)
         IN IF Len(up) > MantissaBits
            THEN [ mant |-> SubSeq(up, 1, MantissaBits), exp |-> exp + 1 ]
            ELSE [ mant |-> up, exp |-> exp ]

\* 1/n for a Python int n >= 1 (true division: the correctly rounded double)
TrueDivOne(n) ==
    LET e    == CeilLog2(n, 0, 1)
        bits == [ i \in 1..MantissaBits |->
                    IF DivRemainder(e, n, i - 1) >= n THEN 1 ELSE 0 ]
        rem  == DivRemainder(e, n, MantissaBits)
        up   == rem > n \/ (rem = n /\ bits[MantissaBits] = 1)
    IN RoundNearest(bits, up, 0 - e - (MantissaBits - 1))

\* the limbs of a bit string, least significant limb first
Limbs(bits) ==
    LET n == (Len(bits) + LimbBits - 1) \div LimbBits
    IN [ j \in 1..n |->
           LET hi == Len(bits) - (j - 1) * LimbBits
               lo == IF hi - LimbBits + 1 < 1 THEN 1 ELSE hi - LimbBits + 1
           IN BitsToInt(SubSeq(bits, lo, hi)) ]

RECURSIVE MulLimbs(_, _, _)
\* limbs (least significant first) times the small integer s, plus carry
MulLimbs(limbs, s, carry) ==
    IF limbs = <<>>
    THEN IF carry = 0 THEN <<>>
         ELSE <<carry % Pow2(LimbBits)>> \o MulLimbs(<<>>, s, carry \div Pow2(LimbBits))
    ELSE LET d == limbs[1] * s + carry
         IN <<d % Pow2(LimbBits)>> \o MulLimbs(Tail(limbs), s, d \div Pow2(LimbBits))

\* the bits of limbs, most significant first, without leading zeros
BitsOfLimbs(limbs) ==
    LET n   == Len(limbs) * LimbBits
        all == [ i \in 1..n |->
                   LET j == (n - i) \div LimbBits
                       b == (n - i) % LimbBits
                   IN (limbs[j + 1] \div Pow2(b)) % 2 ]
        first == CHOOSE i \in 1..n : all[i] = 1 /\ \A k \in 1..(i-1) : all[k] = 0
    IN SubSeq(all, first, n)

\* double * int for an int s >= 1 (s converts to a double exactly)
FloatMulPos(f, s) ==
    LET p      == BitsOfLimbs(MulLimbs(Limbs(f.mant), s, 0))
        drop   == Len(p) - MantissaBits
        kept   == SubSeq(p, 1, MantissaBits)
        guard  == drop >= 1 /\ p[MantissaBits + 1] = 1
        sticky == \E i \in (MantissaBits + 2)..Len(p) : p[i] = 1
        up     == guard /\ (sticky \/ kept[MantissaBits] = 1)
    IN RoundNearest(kept, up, f.exp + drop)

\* int() of a positive double: the integer part
IntOfPos(f) ==
    LET keep == MantissaBits + f.exp
    IN IF keep <= 0 THEN 0
       ELSE IF f.exp >= 0 THEN BitsToInt(f.mant) * Pow2(f.exp)
       ELSE BitsToInt(SubSeq(f.mant, 1, keep))

\* int(recip * s): int() truncates toward zero, the sign carries through
IntOfProduct(recip, s) ==
    IF s = 0 THEN 0
    ELSE IF s > 0 THEN IntOfPos(FloatMulPos(recip, s))
    ELSE 0 - IntOfPos(FloatMulPos(recip, 0 - s))

\* int(1/order * s)
IntScaled(order, s) == IntOfProduct(TrueDivOne(order), s)

\* the orders of the tabulated point groups
TableOrders == { TableC1.order, TableC2v.order, TableD3.order, TableD2h.order, TableD6h.order }

\* int(1/order * s) for every order of a tabulated group and every sum its
\* characters can give: the multiplicities of a table add up to its order,
\* a character is at most 2 and a product of two at most 4
ScaledTable ==
    [ order \in TableOrders |-> [ s \in (0 - 8 * order)..(8 * order) |-> IntScaled(order, s) ] ]

\* int(1/self.pg.order * sum(...)), read from the table
Scaled(order, s) == ScaledTable[order][s]

(***************************************************************************)
(* Python values handled by the operators: one record shape for all.        *)
(*   t = "irrep": items = <<the irrep>>      t = "list": items = the list   *)
(*   t = "int" / "bool": k = the number      t = "float" / "str": no payload*)
(*   t = "exc": e = the exception class      t = "pointgroup" / "none"      *)
(***************************************************************************)
Val(t, items, k, e) == [ t |-> t, items |-> items, k |-> k, e |-> e ]

VIrrep(r) == Val("irrep", <<r>>, 0, "")

VList(s) == Val("list", s, 0, "")

VInt(k) == Val("int", <<>>, k, "")

VBool(b) == Val("bool", <<>>, IF b THEN 1 ELSE 0, "")

VOther(t) == Val(t, <<>>, 0, "")

VExc(e) == Val("exc", <<>>, 0, e)

VNone == Val("none", <<>>, 0, "")

IsExc(v) == v.t = "exc"

(***************************************************************************)
(* Equality, order and list.sort()                                          *)
(***************************************************************************)
\* IrreducibleRepresentation.__eq__
IrrepEq(a, b) == PointGroupEq(a.pg, b.pg) /\ a.irrep = b.irrep

RECURSIVE LtScan(_, _, _, _)
\* the loop of __lt__ over self.pg.elements.values() from position i on:
\* the first element equal to self answers True, equal to other False;
\* running off the end returns None, which is false
LtScan(self, other, vals, i) ==
    IF i > Len(vals) THEN FALSE
    ELSE IF IrrepEq(vals[i], self) THEN TRUE
    ELSE IF IrrepEq(vals[i], other) THEN FALSE
    ELSE LtScan(self, other, vals, i + 1)

\* IrreducibleRepresentation.__lt__
IrrepLt(self, other) == LtScan(self, other, ElementValues(self.pg), 1)

RECURSIVE RunLength(_, _, _)
\* count_run's loop: the run s[1..i-1] goes on while the comparison of each
\* element with the one before it keeps answering descending
RunLength(s, i, descending) ==
    IF i > Len(s) THEN i - 1
    ELSE IF IrrepLt(s[i], s[i-1]) = descending THEN RunLength(s, i + 1, descending)
    ELSE i - 1

RECURSIVE BinarySearch(_, _, _, _)
\* binarysort's search for the place of pivot in the sorted s[l..r-1]
BinarySearch(s, pivot, l, r) ==
    IF l >= r THEN l
    ELSE LET p == l + ((r - l) \div 2)
         IN IF IrrepLt(pivot, s[p]) THEN BinarySearch(s, pivot, l, p)
            ELSE BinarySearch(s, pivot, p + 1, r)

RECURSIVE BinarySort(_, _)
\* binarysort: s[1..start-1] is sorted; insert s[start], s[start+1], ...
BinarySort(s, start) ==
    IF start > Len(s) THEN s
    ELSE LET pivot == s[start]
             l     == BinarySearch(s, pivot, 1, start)
         IN BinarySort(SubSeq(s, 1, l - 1) \o <<pivot>> \o SubSeq(s, l, start - 1)
                         \o SubSeq(s, start + 1, Len(s)),
                       start + 1)

\* a sort() that was forgotten
NoSort(s) == s

\* list.sort() on a list shorter than 64 (one run: count_run, reverse a
\* descending run, binary insertion of the rest), comparing with __lt__
ListSort(s) ==
    IF Len(s) < 2 THEN s
    ELSE LET descending == IrrepLt(s[2], s[1])
             n          == RunLength(s, 3, descending)
             run        == IF descending THEN Reverse(SubSeq(s, 1, n)) ELSE SubSeq(s, 1, n)
         IN BinarySort(run \o SubSeq(s, n + 1, Len(s)), n + 1)

(***************************************************************************)
(* IrreducibleRepresentation: product, sum, power                           *)
(***************************************************************************)
Min(a, b) == IF a <= b THEN a ELSE b

\* a product that adds the characters
IrrepSumVector(self, other) ==
    [ i \in 1..Min(Len(self.irrep), Len(other.irrep)) |-> self.irrep[i] + other.irrep[i] ]

\* _irrep_product: zip stops at the shorter vector
IrrepProduct(self, other) ==
    [ i \in 1..Min(Len(self.irrep), Len(other.irrep)) |-> self.irrep[i] * other.irrep[i] ]

\* a numerator that leaves the class multiplicities out
NumeratorUnweighted(g, r, product) ==
    SumSeq([ i \in 1..Min(Len(r.irrep), Len(product)) |-> r.irrep[i] * product[i] ])

\* sum([i*j*k for i,j,k in zip(symop_multiplicity, irrep.irrep, product)])
Numerator(g, r, product) ==
    LET m == SetIrreps(g).symop_multiplicity
        n == Min(Len(m), Min(Len(r.irrep), Len(product)))
    IN SumSeq([ i \in 1..n |-> m[i] * r.irrep[i] * product[i] ])

\* ai: int(1/order * numerator) for every irrep of the table, in table order
ReductionCoefficients(g, product) ==
    LET vals == ElementValues(g)
    IN [ i \in DOMAIN vals |-> Scaled(SetIrreps(g).order, Numerator(g, vals[i], product)) ]

RECURSIVE SelectIrreps(_, _, _)
SelectIrreps(ai, vals, i) ==
    IF i > Min(Len(ai), Len(vals)) THEN <<>>
    ELSE (IF ai[i] # 0 THEN <<vals[i]>> ELSE <<>>) \o SelectIrreps(ai, vals, i + 1)

\* product_irreps: the table irreps whose coefficient is not 0, once each
ProductIrreps(g, product) ==
    SelectIrreps(ReductionCoefficients(g, product), ElementValues(g), 1)

\* a group test that looks at the family only
SameFamily(self, other) == self.pg.pg = other.pg.pg

\* the test self.pg == other.pg of __mul__
SameGroup(self, other) == PointGroupEq(self.pg, other.pg)

\* a degeneracy flag that needs both operands degenerate
BothDegenerate(self, other) == self.degenerate /\ other.degenerate

\* the flag of a single-irrep product: self.degenerate or other.degenerate
ProductDegenerate(self, other) == self.degenerate \/ other.degenerate

\* __mul__, the branch isinstance(other, IrreducibleRepresentation)
MulIrrep(self, other) ==
    IF SameGroup(self, other)
    THEN LET product == IrrepProduct(self, other)
         IN IF self.degenerate /\ other.degenerate
            THEN VList(ProductIrreps(self.pg, product))
            ELSE VIrrep(Irrep(self.pg, product, ProductDegenerate(self, other)))
    ELSE VExc("NotImplementedError")

RECURSIVE Flatten(_)
\* flatten: the irreps of a list of results, each an irrep or a list
Flatten(rs) == IF rs = <<>> THEN <<>> ELSE rs[1].items \o Flatten(Tail(rs))

\* __mul__, the branch isinstance(other, list): the first product that
\* raises ends the list comprehension
MulList(self, items) ==
    LET rs == [ i \in DOMAIN items |-> MulIrrep(self, items[i]) ]
    IN IF \E i \in DOMAIN rs : IsExc(rs[i])
       THEN rs[CHOOSE i \in DOMAIN rs : IsExc(rs[i]) /\ \A j \in 1..(i-1) : ~IsExc(rs[j])]
       ELSE VList(ListSort(Flatten(rs)))

\* IrreducibleRepresentation.__mul__
Mul(self, other) ==
    IF other.t = "irrep" THEN MulIrrep(self, other.items[1])
    ELSE IF other.t = "list" THEN MulList(self, other.items)
    ELSE VExc("TypeError")

\* IrreducibleRepresentation.__rmul__ (reached with a list on the left)
RMul(self, other) == Mul(self, other)

\* an __add__ that does not sort
AddUnsorted(self, other) == VList(<<self>> \o other.items)

\* IrreducibleRepresentation.__add__; other is an irrep or a list of irreps
Add(self, other) == VList(ListSort(<<self>> \o other.items))

\* IrreducibleRepresentation.__radd__ (reached with a list on the left)
RAdd(self, other) == VList(ListSort(other.items \o <<self>>))

\* the operator *: a list on the left has no number protocol, so Python
\* hands list * irrep to __rmul__; list * list is a TypeError of the
\* interpreter
PyMul(l, r) ==
    IF l.t = "irrep" THEN Mul(l.items[1], r)
    ELSE IF l.t = "list" /\ r.t = "irrep" THEN RMul(r.items[1], l)
    ELSE VExc("TypeError")

\* the operator +: irrep + x is __add__, list + irrep is __radd__, and
\* list + list is the interpreter's list concatenation
PyAdd(l, r) ==
    IF l.t = "irrep" THEN Add(l.items[1], r)
    ELSE IF l.t = "list" /\ r.t = "irrep" THEN RAdd(r.items[1], l)
    ELSE IF l.t = "list" /\ r.t = "list" THEN VList(l.items \o r.items)
    ELSE VExc("TypeError")

RECURSIVE ReduceMul(_, _, _)
\* reduce(mul, [self] * other), with acc the value folded so far and
\* left the number of factors still to take; an exception ends the fold
ReduceMul(acc, self, left) ==
    IF left = 0 \/ IsExc(acc) THEN acc
    ELSE ReduceMul(PyMul(acc, VIrrep(self)), self, left - 1)

\* a __pow__ whose threshold is off by one
PowLate(self, other) ==
    IF other.t \in {"int", "bool"}
    THEN IF other.k < 3 THEN VIrrep(self)
         ELSE ReduceMul(VIrrep(self), self, other.k - 1)
    ELSE VExc("ValueError")

\* a __pow__ that takes a float for an int
PowLax(self, other) ==
    IF other.t \in {"int", "bool", "float"}
    THEN IF other.k < 2 THEN VIrrep(self)
         ELSE ReduceMul(VIrrep(self), self, other.k - 1)
    ELSE VExc("ValueError")

\* IrreducibleRepresentation.__pow__; a bool is an instance of int
Pow(self, other) ==
    IF other.t \in {"int", "bool"}
    THEN IF other.k < 2 THEN VIrrep(self)
         ELSE ReduceMul(VIrrep(self), self, other.k - 1)
    ELSE VExc("ValueError")

\* the operator **: only an irrep on the left defines it
PyPow(l, r) ==
    IF l.t = "irrep" THEN Pow(l.items[1], r)
    ELSE VExc("TypeError")

(***************************************************************************)
(* PointGroup lookups                                                       *)
(***************************************************************************)
HasSymbol(g, symbol) ==
    \E i \in DOMAIN SetIrreps(g).elements : SetIrreps(g).elements[i].symbol = symbol

\* PointGroup.irrep: self.elements[symbol].  With no elements attribute the
\* read of self.elements enters __getattr__('elements'), which reads
\* self.elements again: the interpreter ends the recursion with
\* RecursionError.  A missing key is a KeyError.
IrrepOf(g, symbol) ==
    IF ~SetIrreps(g).set THEN VExc("RecursionError")
    ELSE IF ~HasSymbol(g, symbol) THEN VExc("KeyError")
    ELSE LET es == SetIrreps(g).elements
         IN VIrrep(es[CHOOSE i \in DOMAIN es : es[i].symbol = symbol].irrep)

\* PointGroup.__getattr__
GetAttrOf(g, symbol) ==
    LET sym == Lower(symbol)
    IN IF ~SetIrreps(g).set THEN VExc("RecursionError")
       ELSE IF HasSymbol(g, sym) THEN IrrepOf(g, sym)
       ELSE VExc("AttributeError")

\* PointGroup.__call__
CallOf(g, symbol) == IrrepOf(g, Lower(symbol))

(***************************************************************************)
(* A session: construct one point group, look irreps up, and combine them   *)
(* with *, + and **, each result being the operand of the next operation.   *)
(***************************************************************************)
VARIABLES pgobj, op, lhs, rhs, res, nops, factors, ab, bc, left, right

vars == << pgobj, op, lhs, rhs, res, nops, factors, ab, bc, left, right >>

GroupNames ==
    { <<"C","1">>, <<"C","2","v">>, <<"D","3">>, <<"D","2","h">>, <<"D","6","h">>,
      <<"C","3","v">>, <<"D","n","h">>, <<"c">> }

TabulatedNames ==
    { <<"C","1">>, <<"C","2","v">>, <<"D","3">>, <<"D","2","h">>, <<"D","6","h">> }

\* values of the parameter n; 1 is its default
OrderArgs == { 1, 2, 4, 6 }

Symbols ==
    { <<"a">>, <<"a","1">>, <<"b","2">>, <<"e">>, <<"E">>, <<"a","g">>, <<"b","2","g">>,
      <<"B","2","G">>, <<"a","1","g">>, <<"e","1","g">>, <<"e","2","u">>, <<"x">> }

Tabulated(g) == SetIrreps(g).set

\* the irreps of the session's point group
Own == { VIrrep(ElementValues(pgobj)[i]) : i \in DOMAIN ElementValues(pgobj) }

NumOwn == Len(ElementValues(pgobj))

TabulatedGroups == { PointGroupInit(name, 1).obj : name \in TabulatedNames }

OtherGroups ==
    SelectSeq(<<SelfC1, SelfC2v, SelfD3, SelfD2h, SelfD6h>>, LAMBDA g : ~PointGroupEq(g, pgobj))

NumForeign == 3 * Len(OtherGroups)

\* from every other tabulated point group: its first irrep, its last irrep,
\* and a list that holds the last one after an irrep of the session's group
Foreign(k) ==
    LET vals == ElementValues(OtherGroups[((k - 1) \div 3) + 1])
    IN CASE (k - 1) % 3 = 0 -> VIrrep(vals[1])
         [] (k - 1) % 3 = 1 -> VIrrep(vals[Len(vals)])
         [] OTHER -> VList(<<ElementValues(pgobj)[1], vals[Len(vals)]>>)

\* fresh operand i: an irrep of the session's group, then the foreign ones
Fresh(i) == IF i <= NumOwn THEN VIrrep(ElementValues(pgobj)[i]) ELSE Foreign(i - NumOwn)

IsValue(v) == v.t \in {"irrep", "list"}

Exponents ==
    << VInt(0 - 1), VBool(FALSE), VBool(TRUE), VOther("float"), VOther("str"),
       VIrrep(ElementValues(pgobj)[1]) >>
    \o [ k \in 1..(MaxExp + 1) |-> VInt(k - 1) ]

NotMade == [ made |-> FALSE, pg |-> <<>>, n |-> 0 ]

Made(obj) == [ made |-> TRUE, pg |-> obj.pg, n |-> obj.n ]

Idle ==
    /\ factors = <<>>
    /\ ab = VNone /\ bc = VNone /\ left = VNone /\ right = VNone

Init ==
    /\ pgobj = NotMade
    /\ op = "start"
    /\ lhs = VNone /\ rhs = VNone /\ res = VNone
    /\ nops = 0
    /\ Idle

\* PointGroup(name, n)
Construct(name, n) ==
    /\ ~pgobj.made
    /\ LET r == PointGroupInit(name, n)
       IN /\ pgobj' = IF r.exc = "" THEN Made(r.obj) ELSE pgobj
          /\ res' = IF r.exc = "" THEN VOther("pointgroup") ELSE VExc(r.exc)
    /\ op' = "construct"
    /\ UNCHANGED << lhs, rhs, nops, factors, ab, bc, left, right >>

\* pgobj.<symbol>
GetAttr(symbol) ==
    /\ pgobj.made /\ res.t = "pointgroup"
    /\ op' = "getattr"
    /\ res' = GetAttrOf(pgobj, symbol)
    /\ UNCHANGED << pgobj, lhs, rhs, nops, factors, ab, bc, left, right >>

\* pgobj(symbol)
Call(symbol) ==
    /\ pgobj.made /\ res.t = "pointgroup"
    /\ op' = "call"
    /\ res' = CallOf(pgobj, symbol)
    /\ UNCHANGED << pgobj, lhs, rhs, nops, factors, ab, bc, left, right >>

CanOperate == pgobj.made /\ Tabulated(pgobj) /\ ~IsExc(res) /\ nops < MaxOps

\* operand 0 is the value the session works on, operand i > 0 is fresh
Operand(i) == IF i = 0 THEN res ELSE Fresh(i)

\* the operand pairs of a binary operation: the value worked on with a
\* fresh operand on either side or with itself, or, when the session holds
\* no value yet, two fresh operands, one of them of the session's group
PairAllowed(i, j) ==
    IF IsValue(res)
    THEN (i = 0 \/ j = 0) /\ Len(res.items) <= MaxLen
    ELSE i # 0 /\ j # 0 /\ (i <= NumOwn \/ j <= NumOwn)

\* the operand of a power: the value worked on, or a fresh irrep
BaseAllowed(i) == IF IsValue(res) THEN i = 0 /\ Len(res.items) <= MaxLen ELSE i # 0

OperandIndexes(n) == IF CanOperate THEN 0..n ELSE {}

\* l * r
MulStep(l, r) ==
    /\ op' = "mul" /\ lhs' = l /\ rhs' = r
    /\ res' = PyMul(l, r)
    /\ nops' = nops + 1
    /\ UNCHANGED << pgobj, factors, ab, bc, left, right >>

\* l + r
AddStep(l, r) ==
    /\ op' = "add" /\ lhs' = l /\ rhs' = r
    /\ res' = PyAdd(l, r)
    /\ nops' = nops + 1
    /\ UNCHANGED << pgobj, factors, ab, bc, left, right >>

\* l ** k
PowStep(l, k) ==
    /\ op' = "pow" /\ lhs' = l /\ rhs' = k
    /\ res' = PyPow(l, k)
    /\ nops' = nops + 1
    /\ UNCHANGED << pgobj, factors, ab, bc, left, right >>

Next ==
    \/ \E name \in GroupNames, n \in OrderArgs : Construct(name, n)
    \/ \E symbol \in Symbols : GetAttr(symbol)
    \/ \E symbol \in Symbols : Call(symbol)
    \/ \E i, j \in OperandIndexes(NumOwn + NumForeign) :
          PairAllowed(i, j) /\ MulStep(Operand(i), Operand(j))
    \/ \E i, j \in OperandIndexes(NumOwn) :
          PairAllowed(i, j) /\ AddStep(Operand(i), Operand(j))
    \/ \E i \in OperandIndexes(NumOwn), k \in OperandIndexes(Len(Exponents)) :
          k # 0 /\ BaseAllowed(i) /\ PowStep(Operand(i), Exponents[k])

Spec == Init /\ [][Next]_vars

(***************************************************************************)
(* Three factors A, B, C of one tabulated point group, multiplied in both   *)
(* groupings: (A*B)*C and A*(B*C).                                          *)
(***************************************************************************)
InitAssoc ==
    /\ pgobj \in { Made(g) : g \in TabulatedGroups }
    /\ op = "start"
    /\ lhs = VNone /\ rhs = VNone /\ res = VNone
    /\ nops = 0
    /\ factors \in { <<a, b, c>> : a \in Own, b \in Own, c \in Own }
    /\ ab = VNone /\ bc = VNone /\ left = VNone /\ right = VNone

\* ab = A * B
MulAB ==
    /\ ab = VNone
    /\ ab' = PyMul(factors[1], factors[2])
    /\ UNCHANGED << pgobj, op, lhs, rhs, res, nops, factors, bc, left, right >>

\* left = ab * C
MulLeft ==
    /\ ab # VNone /\ ~IsExc(ab) /\ left = VNone
    /\ left' = PyMul(ab, factors[3])
    /\ UNCHANGED << pgobj, op, lhs, rhs, res, nops, factors, ab, bc, right >>

\* bc = B * C
MulBC ==
    /\ bc = VNone
    /\ bc' = PyMul(factors[2], factors[3])
    /\ UNCHANGED << pgobj, op, lhs, rhs, res, nops, factors, ab, left, right >>

\* right = A * bc
MulRight ==
    /\ bc # VNone /\ ~IsExc(bc) /\ right = VNone
    /\ right' = PyMul(factors[1], bc)
    /\ UNCHANGED << pgobj, op, lhs, rhs, res, nops, factors, ab, bc, left >>

NextAssoc == MulAB \/ MulLeft \/ MulBC \/ MulRight

SpecAssoc == InitAssoc /\ [][NextAssoc]_vars

(***************************************************************************)
(* Comparisons A < B of two irreps of the table of one point group.         *)
(***************************************************************************)
InitOrder ==
    /\ pgobj \in { Made(g) : g \in TabulatedGroups }
    /\ op = "start"
    /\ lhs = VNone /\ rhs = VNone /\ res = VNone
    /\ nops = 0
    /\ Idle

\* what self < other evaluates to: the loop of __lt__ returns True or False
\* at the first table irrep equal to self or to other, and None when it
\* meets neither
Lt(self, other) ==
    LET vals == ElementValues(self.pg)
    IN IF \E i \in DOMAIN vals : IrrepEq(vals[i], self) \/ IrrepEq(vals[i], other)
       THEN VBool(IrrepLt(self, other))
       ELSE VNone

\* l < r for two irreps of the table
Compare(i, j) ==
    /\ op' = "lt"
    /\ lhs' = Fresh(i) /\ rhs' = Fresh(j)
    /\ res' = Lt(Fresh(i).items[1], Fresh(j).items[1])
    /\ UNCHANGED << pgobj, nops, factors, ab, bc, left, right >>

NextOrder == \E i, j \in 1..NumOwn : Compare(i, j)

SpecOrder == InitOrder /\ [][NextOrder]_vars

(***************************************************************************)
(* Properties                                                               *)
(***************************************************************************)
InTable(r) == \E i \in DOMAIN ElementValues(r.pg) : IrrepEq(ElementValues(r.pg)[i], r)

\* the place of r in the canonical order of its point group's table
Position(r) ==
    CHOOSE i \in DOMAIN ElementValues(r.pg) : IrrepEq(ElementValues(r.pg)[i], r)

InCanonicalOrder(items) ==
    /\ \A i \in DOMAIN items : InTable(items[i])
    /\ \A i \in 1..(Len(items) - 1) : Position(items[i]) <= Position(items[i+1])

Count(r, items) == Cardinality({ i \in DOMAIN items : IrrepEq(items[i], r) })

\* sum_i multiplicity_i * R_i * A_i * B_i
CharacterSum(a, b, r) ==
    LET m == SetIrreps(a.pg).symop_multiplicity
    IN SumSeq([ i \in DOMAIN m |-> m[i] * r.irrep[i] * a.irrep[i] * b.irrep[i] ])

\* the irrep of the D6h, D2h or D3 table with this symbol
D6(symbol) == IrrepOf(SelfD6h, symbol).items[1]

D2(symbol) == IrrepOf(SelfD2h, symbol).items[1]

\* the operation just performed took two irreps of one tabulated point group
IrrepPair ==
    /\ lhs.t = "irrep" /\ rhs.t = "irrep"
    /\ lhs.items[1].pg = rhs.items[1].pg
    /\ Tabulated(lhs.items[1].pg)

DegeneratePair == IrrepPair /\ lhs.items[1].degenerate /\ rhs.items[1].degenerate

\* C1: the product of two degenerate irreps of one tabulated point group is
\* a list in canonical table order that holds every table irrep R exactly
\* a_R times, a_R = (1/order) * sum_i multiplicity_i R_i A_i B_i; in D6h
\* e1g * e1g = [a1g, a2g, e2g].
C1_DegenerateProductIsReduction ==
    (op = "mul" /\ DegeneratePair) =>
        LET a    == lhs.items[1]
            b    == rhs.items[1]
            vals == ElementValues(a.pg)
        IN /\ res.t = "list"
           /\ InCanonicalOrder(res.items)
           /\ \A i \in DOMAIN vals :
                 Count(vals[i], res.items) * SetIrreps(a.pg).order = CharacterSum(a, b, vals[i])
           /\ (a = D6(<<"e","1","g">>) /\ b = D6(<<"e","1","g">>)) =>
                 res.items = << D6(<<"a","1","g">>), D6(<<"a","2","g">>), D6(<<"e","2","g">>) >>

C1_Witness ==
    /\ op = "mul" /\ DegeneratePair
    /\ lhs.items[1] = D6(<<"e","1","g">>) /\ rhs.items[1] = D6(<<"e","1","g">>)
    /\ Len(res.items) = 3

\* Python's == on two results: irreps by __eq__, lists element by element
ValueEq(v, w) ==
    /\ v.t = w.t
    /\ Len(v.items) = Len(w.items)
    /\ \A i \in DOMAIN v.items : IrrepEq(v.items[i], w.items[i])

\* C2: for table irreps A, B, C of one point group, (A*B)*C and A*(B*C)
\* both succeed and give equal results: the same irrep, or lists with the
\* same elements in the same order.
C2_ProductAssociative ==
    /\ (ab # VNone => IsValue(ab)) /\ (bc # VNone => IsValue(bc))
    /\ (left # VNone => IsValue(left)) /\ (right # VNone => IsValue(right))
    /\ (left # VNone /\ right # VNone) => ValueEq(left, right)

C2_Witness ==
    /\ left # VNone /\ right # VNone
    /\ factors[1].items[1].degenerate /\ ~factors[2].items[1].degenerate
    /\ factors[3].items[1].degenerate
    /\ left.t = "list" /\ ab.t = "irrep" /\ bc.t = "irrep"

\* C3: every list that *, + or ** gives, whatever the operands (irreps or
\* lists produced before, of one point group), is in canonical order.
C3_EveryListCanonical ==
    (op \in {"mul", "add", "pow"} /\ res.t = "list") => InCanonicalOrder(res.items)

\* d6h.e2u + d6h.e1g * d6h.e2u * d6h.e2u + d6h.a1g
DocumentedSum ==
    LET e1g == VIrrep(D6(<<"e","1","g">>))
        e2u == VIrrep(D6(<<"e","2","u">>))
        a1g == VIrrep(D6(<<"a","1","g">>))
    IN PyAdd(PyAdd(e2u, PyMul(PyMul(e1g, e2u), e2u)), a1g)

\* the operation just performed took an irrep and an irrep or a list
SumOperands ==
    /\ IsValue(lhs) /\ IsValue(rhs)
    /\ lhs.t = "irrep" \/ rhs.t = "irrep"

C5_SingleProductInTable ==
    (op = "mul" /\ IrrepPair /\ ~DegeneratePair) =>
        LET a == lhs.items[1]
            b == rhs.items[1]
        IN /\ res.t = "irrep"
           /\ res.items[1].pg = a.pg
           /\ Len(res.items[1].irrep) = Len(a.irrep)
           /\ \A i \in DOMAIN a.irrep : res.items[1].irrep[i] = a.irrep[i] * b.irrep[i]
           /\ res.items[1].degenerate = (a.degenerate \/ b.degenerate)
           /\ \E i \in DOMAIN ElementValues(a.pg) : ElementValues(a.pg)[i] = res.items[1]

C5_Witness ==
    /\ op = "mul" /\ IrrepPair
    /\ lhs.items[1] = D6(<<"e","1","g">>) /\ rhs.items[1] = D6(<<"b","1","g">>)
    /\ res = VIrrep(D6(<<"e","2","g">>))

\* C6: for two degenerate irreps of a tabulated point group every reduction
\* numerator is a non-negative multiple of the group order, every a_R is
\* that quotient, and sum_R a_R * R[0] = A[0] * B[0].
C6_CoefficientsIntegral ==
    (op = "mul" /\ DegeneratePair) =>
        LET a       == lhs.items[1]
            b       == rhs.items[1]
            g       == a.pg
            vals    == ElementValues(g)
            product == IrrepProduct(a, b)
            ai      == ReductionCoefficients(g, product)
        IN /\ \A i \in DOMAIN vals :
                 /\ Numerator(g, vals[i], product) >= 0
                 /\ Numerator(g, vals[i], product) % SetIrreps(g).order = 0
                 /\ ai[i] >= 0
                 /\ ai[i] * SetIrreps(g).order = Numerator(g, vals[i], product)
           /\ SumSeq([ i \in DOMAIN vals |-> ai[i] * vals[i].irrep[1] ])
                 = a.irrep[1] * b.irrep[1]

C6_Witness ==
    /\ op = "mul" /\ DegeneratePair
    /\ lhs.items[1].pg = SelfD3
    /\ ReductionCoefficients(SelfD3, IrrepProduct(lhs.items[1], rhs.items[1])) = <<1, 1, 1>>

\* C7: for a table irrep A and an integer k, A**k is A when k < 2, and for
\* k >= 2 the product ((A*A)*A)*... of k factors, taken from the left; in
\* D2h b2g**2 = ag, in D6h e1g**2 = [a1g, a2g, e2g].
C7_PowerIsLeftProduct ==
    (op = "pow" /\ lhs.t = "irrep" /\ rhs.t = "int" /\ InTable(lhs.items[1])) =>
        /\ rhs.k < 2 => res = lhs
        /\ rhs.k = 2 => res = PyMul(lhs, lhs)
        /\ rhs.k = 3 => res = PyMul(PyMul(lhs, lhs), lhs)
        /\ rhs.k > 2 => res = PyMul(PyPow(lhs, VInt(rhs.k - 1)), lhs)
        /\ (lhs.items[1] = D2(<<"b","2","g">>) /\ rhs.k = 2) => res = VIrrep(D2(<<"a","g">>))
        /\ (lhs.items[1] = D6(<<"e","1","g">>) /\ rhs.k = 2) =>
              res.items = << D6(<<"a","1","g">>), D6(<<"a","2","g">>), D6(<<"e","2","g">>) >>

C7_Witness ==
    /\ op = "pow" /\ lhs = VIrrep(D6(<<"e","1","g">>)) /\ rhs = VInt(3)
    /\ Len(res.items) = 5

\* the point groups differ in family or in order
GroupsDiffer(a, b) == a.pg.pg # b.pg.pg \/ a.pg.n # b.pg.n

\* C8: A * B with the point groups of A and B differing in family or order
\* fails with NotImplementedError, also when B is an element of the list
\* that A is multiplied with.
C8_CrossGroupProductFails ==
    (op = "mul" /\ lhs.t = "irrep"
       /\ \/ rhs.t = "irrep" /\ GroupsDiffer(lhs.items[1], rhs.items[1])
          \/ rhs.t = "list" /\ \E i \in DOMAIN rhs.items : GroupsDiffer(lhs.items[1], rhs.items[i]))
    => res = VExc("NotImplementedError")

C8_Witness ==
    /\ op = "mul" /\ lhs.t = "irrep" /\ rhs.t = "irrep"
    /\ lhs.items[1].pg = SelfD6h /\ rhs.items[1].pg = SelfD2h
    /\ res = VExc("NotImplementedError")

\* LookupError and its subclasses
LookupErrors == { "LookupError", "KeyError", "IndexError" }

\* C9: a point group without a tabulated character table is refused with a
\* LookupError, at construction or at the latest at the first lookup of
\* an irrep on it.
C9_UnsupportedGroupIsLookupError ==
    (pgobj.made /\ ~Tabulated(pgobj) /\ op \in {"getattr", "call"}) =>
        (IsExc(res) /\ res.e \in LookupErrors)

\* TypeError has no subclass among the exceptions raised here
TypeErrors == { "TypeError" }

NonIntExponent == op = "pow" /\ lhs.t = "irrep" /\ rhs.t \in {"float", "str", "irrep"}

\* C10 as stated: A**k with k not an integer fails with a TypeError.
C10_NonIntExponentIsTypeError ==
    NonIntExponent => (IsExc(res) /\ res.e \in TypeErrors)

\* C10 amended: A**k with k not an instance of int fails with a ValueError
\* and gives no value.
C10_NonIntExponentIsValueError ==
    NonIntExponent => res = VExc("ValueError")

C10_Witness ==
    NonIntExponent /\ rhs.t = "float" /\ res = VExc("ValueError")

\* C11: for two irreps A and B of one point group that equal table
\* entries, A < B is true exactly when A stands strictly before B in the
\* table, so that an irrep is not less than itself.
C11_LtIsStrictTableOrder ==
    (op = "lt") =>
        res = VBool(Position(lhs.items[1]) < Position(rhs.items[1]))

=============================================================================
